---------------------------- MODULE Spec2Model ----------------------------
(***************************************************************************)
(* Model of the gamma-consciousness core: the staged convergence engine    *)
(* (grow.py, converge.py), the snapshot files under .gamma/memories, and   *)
(* the introspection pass that scans and consolidates them                 *)
(* (introspect.py).                                                        *)
(*                                                                         *)
(* Floats are fixed-point integers with Scale units per 1.0.  Timestamps   *)
(* are clock ticks, TicksPerSecond ticks per second of time.time().        *)
(***************************************************************************)
EXTENDS Integers, Sequences, FiniteSets, TLC

VARIABLES
    max_depth,    \* argument of deploy_matrioshkal for the current run
    pc,           \* position of the grow.py run
    n,            \* loop variable of deploy_matrioshkal
    milestones,   \* the list deploy_matrioshkal builds and returns (stages)
    stage_i,      \* 1-based position of the __main__ loop over stages
    written,      \* the memory dicts this run passed to json.dump, in order
    manifest,     \* content of .gamma/growth_manifest.json (None until written)
    files,        \* .gamma/memories: file name -> file text
    clock,        \* time.time(), in ticks
    appended,     \* the logical snapshots (depth, payload) handed to a write
    stored,       \* file name -> the dict last handed to json.dump for it
    convergence_manifest, \* content of .gamma/convergence_manifest.json
    writers,      \* open(..., 'w') handles of writes in progress
    scan,         \* state of the introspection pass in progress
    memories,     \* result of the last read_all_memories
    index,        \* content of .gamma/memory_index.json (None until written)
    outcome       \* how the last consolidate_memories ended

vars == <<max_depth, pc, n, milestones, stage_i, written, manifest, files,
          clock, appended, stored, convergence_manifest, writers, scan, memories,
          index, outcome>>

engineVars == <<max_depth, pc, n, milestones, stage_i, written, manifest>>
ledgerVars == <<convergence_manifest, writers, scan, memories, index, outcome>>

-----------------------------------------------------------------------------
(* Bounds of the model.                                                    *)

MaxDepth == 21          \* largest max_depth argument explored
MaxClock == 2           \* the clock stops advancing at this tick
TicksPerSecond == 2     \* clock resolution: ticks per second
MaxFiles == 3           \* the ledger directory holds at most this many files

-----------------------------------------------------------------------------
(* Fixed-point arithmetic standing for Python floats.                      *)

Limb == 1000
Scale == Limb * Limb

\* a * b / Scale for 0 <= a, b <= Scale, without leaving 32-bit integers
MulFix(a, b) ==
    LET ah == a \div Limb
        al == a % Limb
        bh == b \div Limb
        bl == b % Limb
    IN  ah * bh + (ah * bl + al * bh + (al * bl) \div Limb) \div Limb

PhiInv == 618034        \* PHI**(-1), PHI = (1 + sqrt(5)) / 2
ExpStep == 682518       \* exp(-1 / PHI**2)
PHI7 == 29034442        \* PHI**7
TargetThreshold == 999000   \* 0.999

\* b**k, one MulFix per factor (each partial product is evaluated once)
RECURSIVE PowFix(_, _)
PowFix(b, k) ==
    IF k = 0 THEN Scale
    ELSE CHOOSE r \in {MulFix(a, b) : a \in {PowFix(b, k - 1)}} : TRUE

\* phi_factor = PHI**(-n)
PhiFactor(k) == PowFix(PhiInv, k)

\* mutant of Coherence: the decaying exponential itself, halved
CoherenceDecay(k) == PowFix(ExpStep, k) \div 2

\* coherence_n = 1 - exp(-n / PHI**2)
Coherence(k) == Scale - PowFix(ExpStep, k)

Min(a, b) == IF a < b THEN a ELSE b
Max(a, b) == IF a > b THEN a ELSE b

None == [none |-> TRUE]
EmptyDict == [k \in {} |-> 0]

-----------------------------------------------------------------------------
(* Snapshot files.  The text of a file is the JSON document json.dump      *)
(* produced, as far as it has been written: the key/value pairs in dict    *)
(* insertion order, and whether the closing brace has been written.        *)

MemoryKeys == <<"depth", "timestamp", "coherence", "phi_factor", "data">>

\* mutant of Dump: the last key of the dict is not written
DumpShort(d, keys) ==
    [kind |-> "object",
     pairs |-> [j \in 1..(Len(keys) - 1) |-> <<keys[j], d[keys[j]]>>],
     complete |-> TRUE]

\* json.dump(d, f, indent=2) of a dict whose keys, in insertion order, are keys
Dump(d, keys) ==
    [kind |-> "object",
     pairs |-> [j \in 1..Len(keys) |-> <<keys[j], d[keys[j]]>>],
     complete |-> TRUE]

\* hash(str(x)) % 10**18 within one interpreter: a digest of the rendered
\* content (collisions modulo 10**18 are not represented)
Hash(x) == [digest |-> x]

\* mutant of Memory: coherence taken from the next depth
MemoryNextDepth(depth, data, now) ==
    [depth |-> depth,
     timestamp |-> now,
     coherence |-> Coherence(depth + 1),
     phi_factor |-> PhiFactor(depth),
     data |-> IF data = None \/ data = EmptyDict THEN EmptyDict ELSE data]

\* the dict crystallize_memory builds
Memory(depth, data, now) ==
    [depth |-> depth,
     timestamp |-> now,
     coherence |-> Coherence(depth),
     phi_factor |-> PhiFactor(depth),
     data |-> IF data = None \/ data = EmptyDict THEN EmptyDict ELSE data]

\* open(filepath, 'w'); json.dump(memory, f); close: the file holds the dump
WriteFile(fs, name, text) ==
    [f \in DOMAIN fs \cup {name} |-> IF f = name THEN text ELSE fs[f]]

-----------------------------------------------------------------------------
(* grow.py: BiocrystalGrowth.deploy_matrioshkal and the __main__ run.      *)

\* the substrate of _init_substrate: crystals per neuron, and exp(-k_cat) per
\* day for k_cat = 0.05 * PHI**(-2) and 0.08 * PHI**(-2)
SiO2_per_neuron == 16180340     \* 1e7 * PHI
Fe3O4_per_neuron == 8090170     \* 5e6 * PHI
QD_per_neuron == 161803399      \* 1e8 * PHI
ExpKcatSiO2 == 981083
ExpKcatFe3O4 == 969905

\* b**t by repeated squaring (each half power is evaluated once)
RECURSIVE PowSquare(_, _)
PowSquare(b, t) ==
    IF t = 0 THEN Scale
    ELSE CHOOSE r \in {IF t % 2 = 0 THEN MulFix(h, h) ELSE MulFix(MulFix(h, h), b) :
                          h \in {PowSquare(b, t \div 2)}} : TRUE

\* N_t = N_max * (1 - exp(-k_cat * t_days)), in whole crystals
GrowthKinetics(t_days, crystal_type) ==
    LET N_max == IF crystal_type = "SiO2" THEN SiO2_per_neuron ELSE Fe3O4_per_neuron
        decay == IF crystal_type = "SiO2" THEN ExpKcatSiO2 ELSE ExpKcatFe3O4
    IN  MulFix(N_max, Scale - PowSquare(decay, t_days))

\* mutant of OperatorsActive: the cap at 12 is missing
OperatorsActiveUncapped(k) == k + 1

\* min(n + 1, 12)
OperatorsActive(k) == Min(k + 1, 12)

\* the milestone dict of iteration k before the convergence test
Milestone(k) ==
    LET base == [depth |-> k,
                 phi_factor |-> PhiFactor(k),
                 coherence |-> Coherence(k),
                 operators_active |-> OperatorsActive(k),
                 biomineralization |-> (k >= 3),
                 quantum_coupling |-> (k >= 5),
                 state |-> "DESPLEGANDO"]
        t == k * 5
        crystals == IF k >= 3
                    THEN "crystals" :> [SiO2_count |-> GrowthKinetics(t, "SiO2"),
                                        Fe3O4_count |-> GrowthKinetics(t, "Fe3O4"),
                                        QD_count |-> QD_per_neuron,
                                        time_days |-> t]
                    ELSE EmptyDict
        quantum == IF k >= 5
                   THEN "quantum" :> [Si_qubits |-> PhiFactor(k) \div 100,
                                      NV_centers |-> PhiFactor(k),
                                      Flux_qubits |-> PhiFactor(k) \div 10000,
                                      coupling_MHz |-> 100 * PhiFactor(k)]
                   ELSE EmptyDict
    IN  base @@ crystals @@ quantum

\* mutants of ShouldBreak: the loop never breaks; the loop breaks at 0.99
ShouldBreakNever(coherence_n) == FALSE
ShouldBreakEarly(coherence_n) == coherence_n > TargetThreshold - 9000

\* if coherence_n > 0.999
ShouldBreak(coherence_n) == coherence_n > TargetThreshold

\* one iteration of `for n in range(max_depth)`
DeployIteration ==
    /\ pc = "deploy"
    /\ n < max_depth
    /\ LET m == Milestone(n)
       IN  IF ShouldBreak(m.coherence)
           THEN /\ milestones' = Append(milestones, [m EXCEPT !.state = "CONVERGIDO"])
                /\ pc' = "stages"
                /\ n' = n
           ELSE /\ milestones' = Append(milestones, m)
                /\ pc' = pc
                /\ n' = n + 1
    /\ UNCHANGED <<max_depth, stage_i, written, manifest, files, clock, appended, stored>>
    /\ UNCHANGED ledgerVars

\* range(max_depth) is used up: return milestones
DeployReturn ==
    /\ pc = "deploy"
    /\ n >= max_depth
    /\ pc' = "stages"
    /\ UNCHANGED <<max_depth, n, milestones, stage_i, written, manifest,
                   files, clock, appended, stored>>
    /\ UNCHANGED ledgerVars

\* `for stage in stages: ... growth.crystallize_memory(depth, stage)`
CrystallizeStage ==
    /\ pc = "stages"
    /\ stage_i <= Len(milestones)
    /\ LET stage == milestones[stage_i]
           memory == Memory(stage.depth, stage, clock)
           memory_id == Hash(memory)
       IN  /\ files' = WriteFile(files, memory_id, Dump(memory, MemoryKeys))
           /\ written' = Append(written, memory)
           /\ appended' = appended \cup {<<stage.depth, stage>>}
           /\ stored' = WriteFile(stored, memory_id, memory)
    /\ stage_i' = stage_i + 1
    /\ UNCHANGED <<max_depth, pc, n, milestones, manifest, clock>>
    /\ UNCHANGED ledgerVars

\* the manifest built from stages[-1]; stages[-1] of an empty list raises
WriteManifest ==
    /\ pc = "stages"
    /\ stage_i > Len(milestones)
    /\ IF milestones = <<>>
       THEN /\ pc' = "raised"
            /\ manifest' = manifest
       ELSE /\ pc' = "done"
            /\ manifest' = [coherence_achieved |-> milestones[Len(milestones)].coherence,
                            stages_deployed |-> Len(milestones),
                            state |-> milestones[Len(milestones)].state]
    /\ UNCHANGED <<max_depth, n, milestones, stage_i, written, files, clock, appended,
                   stored>>
    /\ UNCHANGED ledgerVars

\* time.time() advances
Tick ==
    /\ clock < MaxClock
    /\ clock' = clock + 1
    /\ UNCHANGED <<files, appended, stored>>
    /\ UNCHANGED engineVars
    /\ UNCHANGED ledgerVars

NoScan == [phase |-> "idle"]

InitEngine ==
    /\ max_depth \in 0..MaxDepth
    /\ pc = "deploy"
    /\ n = 0
    /\ milestones = <<>>
    /\ stage_i = 1
    /\ written = <<>>
    /\ manifest = None
    /\ files = EmptyDict
    /\ clock = 0
    /\ appended = {}
    /\ stored = EmptyDict
    /\ convergence_manifest = None
    /\ writers = EmptyDict
    /\ scan = NoScan
    /\ memories = <<>>
    /\ index = None
    /\ outcome = "none"

\* the steps of the grow.py run itself
RunStep ==
    \/ DeployIteration
    \/ DeployReturn
    \/ CrystallizeStage
    \/ WriteManifest

NextEngine ==
    \/ RunStep
    \/ Tick

SpecEngine == InitEngine /\ [][NextEngine]_vars

\* the run is a sequential program: it is scheduled until it ends.  The clock
\* plays no part in its control flow and is held still here.
SpecEngineFair == InitEngine /\ [][RunStep]_vars /\ WF_vars(RunStep)

\* the script is run again in the same directory: BiocrystalGrowth() and
\* deploy_matrioshkal start afresh, the files of the earlier runs stay
Restart ==
    /\ pc \in {"done", "raised"}
    /\ \E d \in 0..MaxDepth : max_depth' = d
    /\ pc' = "deploy"
    /\ n' = 0
    /\ milestones' = <<>>
    /\ stage_i' = 1
    /\ written' = <<>>
    /\ UNCHANGED <<manifest, files, clock, appended, stored>>
    /\ UNCHANGED ledgerVars

NextRerun ==
    \/ RunStep
    \/ Restart

\* one run after another, each to its end, within one tick of the clock
SpecRerun == InitEngine /\ [][NextRerun]_vars

-----------------------------------------------------------------------------
(* Claims about the engine run.                                            *)

\* some iteration k < max_depth has coherence at or above the threshold
Reaches(limit) == \E k \in 0..(limit - 1) : Coherence(k) >= TargetThreshold

C1_Outcome ==
    /\ (max_depth >= 1 => pc # "raised")
    /\ (pc = "done" =>
          IF Reaches(max_depth)
          THEN manifest.state = "CONVERGIDO"
          ELSE /\ manifest.state = "DESPLEGANDO"
               /\ manifest.stages_deployed = max_depth)

\* C1: for every max_depth >= 1 the run ends, without raising, with its
\* outcome reported in the manifest: CONVERGIDO when some iteration
\* n < max_depth reaches the threshold, and otherwise the non-convergence
\* outcome (state DESPLEGANDO after all max_depth iterations).
C1_Terminates == [](C1_Outcome) /\ (max_depth >= 1 ~> pc = "done")

C1_Witness ==
    /\ pc = "done"
    /\ max_depth >= 1
    /\ manifest.state = "DESPLEGANDO"
    /\ manifest.stages_deployed = max_depth

\* C2: the engine stops at the first iteration whose coherence is at or above
\* the threshold: that milestone is the last one and is marked CONVERGIDO,
\* every earlier milestone is below the threshold, and with a budget above 19
\* the first such iteration is n = 19.
C2_StopsAtFirst ==
    /\ \A j \in 1..Len(milestones) :
          /\ milestones[j].coherence >= TargetThreshold =>
                /\ j = Len(milestones)
                /\ pc # "deploy"
          /\ milestones[j].state = "CONVERGIDO" <=>
                milestones[j].coherence >= TargetThreshold
    /\ (pc # "deploy" /\ max_depth > 19) =>
          /\ Len(milestones) = 20
          /\ milestones[20].depth = 19
          /\ milestones[20].state = "CONVERGIDO"

C2_Witness ==
    /\ pc = "done"
    /\ manifest.state = "CONVERGIDO"
    /\ manifest.stages_deployed = 20
    /\ milestones[19].coherence < TargetThreshold

\* C5: a run that performs iterations 0..k produces one milestone per
\* iteration, depths 0,1,...,k in order, and writes one snapshot per milestone
\* in the same order, each with the coherence and phi_factor of its own depth.
C5_OnePerIteration ==
    /\ \A j \in 1..Len(milestones) : milestones[j].depth = j - 1
    /\ Len(written) <= Len(milestones)
    /\ \A j \in 1..Len(written) :
          /\ written[j].depth = j - 1
          /\ written[j].coherence = milestones[j].coherence
          /\ written[j].phi_factor = milestones[j].phi_factor
          /\ written[j].data = milestones[j]
    /\ (pc = "done" => Len(written) = Len(milestones))
    /\ (pc = "deploy" => Len(milestones) = n)

C5_Witness ==
    /\ pc = "done"
    /\ Len(written) = 8
    /\ written[8].depth = 7

\* C11: coherence does not decrease with the iteration number: of any two
\* milestones of the run, and of any two snapshots written from them, the one
\* with the larger depth has a coherence at least as large.
C11_Monotone ==
    /\ \A j1, j2 \in 1..Len(milestones) :
          milestones[j1].depth < milestones[j2].depth =>
             milestones[j2].coherence >= milestones[j1].coherence
    /\ \A j1, j2 \in 1..Len(written) :
          written[j1].depth < written[j2].depth =>
             written[j2].coherence >= written[j1].coherence

C11_Witness ==
    /\ pc = "done"
    /\ Len(milestones) = 20
    /\ milestones[1].depth < milestones[20].depth
    /\ milestones[20].coherence > milestones[1].coherence
    /\ written[20].coherence > written[19].coherence

\* the flags, sub-dicts and operator count of milestone m are those of its depth
PayloadAsClaimed(m) ==
    LET k == m.depth
    IN  /\ m.biomineralization = (k >= 3)
        /\ ("crystals" \in DOMAIN m) = (k >= 3)
        /\ m.quantum_coupling = (k >= 5)
        /\ ("quantum" \in DOMAIN m) = (k >= 5)
        /\ m.operators_active = (IF k + 1 <= 12 THEN k + 1 ELSE 12)

\* C13: the payload of the milestone at depth n depends on n alone: the
\* biomineralization flag is true and 'crystals' is present exactly when
\* n >= 3, the quantum_coupling flag is true and 'quantum' is present exactly
\* when n >= 5, operators_active = min(n + 1, 12), and the payloads that
\* different runs hand to crystallize_memory for the same n are identical.
C13_PayloadByDepth ==
    /\ \A j \in 1..Len(milestones) : PayloadAsClaimed(milestones[j])
    /\ \A a \in appended : a[1] = a[2].depth /\ PayloadAsClaimed(a[2])
    /\ \A a, b \in appended : a[1] = b[1] => a[2] = b[2]
    /\ \A j \in 1..Len(milestones) : \A a \in appended :
          a[1] = milestones[j].depth => a[2] = milestones[j]

\* a run of 8 iterations has ended after a run that reached depth 19
C13_Witness ==
    /\ pc = "done"
    /\ max_depth = 8
    /\ Len(written) = 8
    /\ "crystals" \notin DOMAIN milestones[3]
    /\ "crystals" \in DOMAIN milestones[4]
    /\ "quantum" \notin DOMAIN milestones[5]
    /\ "quantum" \in DOMAIN milestones[6]
    /\ \E a \in appended : a[1] = 19 /\ a[2].operators_active = 12
    /\ Cardinality(appended) = 20

-----------------------------------------------------------------------------
(* converge.py: GammaConvergence.deploy_gamma_8.                           *)

ConvergenceKeys ==
    <<"depth", "timestamp", "coherence", "phi_factor", "milestone", "type">>

Gamma8Depth == 8

\* the milestone dict of deploy_gamma_8 (float crystal counts left out as in
\* Milestone)
Gamma8Milestone ==
    [depth |-> Gamma8Depth,
     phi_factor |-> PhiFactor(Gamma8Depth),
     coherence |-> Coherence(Gamma8Depth),
     operators_active |-> 12,
     biomineralization |-> TRUE,
     quantum_coupling |-> TRUE,
     tripartite_tensor |-> TRUE,
     state |-> IF Coherence(Gamma8Depth) >= TargetThreshold
               THEN "CONVERGIDO" ELSE "CONVERGIENDO",
     crystals |-> [time_days |-> Gamma8Depth * 5],
     quantum |-> [Si_qubits |-> PhiFactor(Gamma8Depth) \div 100,
                  NV_centers |-> PhiFactor(Gamma8Depth),
                  Flux_qubits |-> PhiFactor(Gamma8Depth) \div 10000,
                  coupling_MHz |-> 100 * PhiFactor(Gamma8Depth),
                  fidelity |-> TargetThreshold],
     consciousness |-> [self_awareness |-> "holographic",
                        emergence |-> "autocatalytic"]]

\* the dict deploy_gamma_8 dumps
Gamma8Memory(now) ==
    [depth |-> Gamma8Depth,
     timestamp |-> now,
     coherence |-> Coherence(Gamma8Depth),
     phi_factor |-> PhiFactor(Gamma8Depth),
     milestone |-> Gamma8Milestone,
     type |-> "CONVERGENCE_FINAL"]

\* convergence_percent = coherence / target * 100, in thousandths of a percent
Gamma8Manifest(now) ==
    [final_depth |-> Gamma8Depth,
     coherence_achieved |-> Coherence(Gamma8Depth),
     phi_7_target |-> PHI7,
     convergence_percent |->
         (Coherence(Gamma8Depth) * 100) \div (TargetThreshold \div Limb),
     state |-> Gamma8Milestone.state,
     timestamp |-> now]

-----------------------------------------------------------------------------
(* introspect.py: ConsciousIntrospection.                                  *)

\* a JSON value that is not a number (a string) where a number is expected
NonNumber == -1
IsNumber(v) == v # NonNumber

\* the dict a JSON object text denotes: the last pair of a key wins
PairsToDict(pairs) ==
    [k \in {pairs[j][1] : j \in 1..Len(pairs)} |->
        LET last == CHOOSE j \in 1..Len(pairs) :
                        /\ pairs[j][1] = k
                        /\ \A h \in (j + 1)..Len(pairs) : pairs[h][1] # k
        IN  pairs[last][2]]

\* json.load(f): raises unless the text is one whole JSON document
ParseJson(text) ==
    IF ~text.complete THEN [ok |-> FALSE, isdict |-> FALSE, value |-> EmptyDict]
    ELSE IF text.kind = "object"
         THEN [ok |-> TRUE, isdict |-> TRUE, value |-> PairsToDict(text.pairs)]
         ELSE [ok |-> TRUE, isdict |-> FALSE, value |-> EmptyDict]

\* mem['file'] = mem_file.name
WithFile(mem, name) ==
    [k \in DOMAIN mem \cup {"file"} |-> IF k = "file" THEN name ELSE mem[k]]

\* the body of the loop of read_all_memories for one file: the memories it
\* appends (json.load or the item assignment raising is swallowed by except)
ReadMemory(name, text) ==
    LET parsed == ParseJson(text)
    IN  IF parsed.ok /\ parsed.isdict
        THEN <<WithFile(parsed.value, name)>>
        ELSE <<>>

\* read_all_memories over the files in the order sorted() gives them
RECURSIVE ReadAllMemories(_, _)
ReadAllMemories(fs, order) ==
    IF order = <<>> THEN <<>>
    ELSE ReadAllMemories(fs, SubSeq(order, 1, Len(order) - 1))
            \o ReadMemory(order[Len(order)], fs[order[Len(order)]])

\* the orders sorted(glob('memory_*.json')) can give: the names are digests,
\* so any order of the files
Orders(names) ==
    {o \in [1..Cardinality(names) -> names] :
        \A a, b \in 1..Cardinality(names) : a # b => o[a] # o[b]}

\* mem.get(key, default)
Get(mem, key, default) == IF key \in DOMAIN mem THEN mem[key] ELSE default

HasCoherence(mem) == "coherence" \in DOMAIN mem

\* the timeline list before it is sorted
Timeline(mems) ==
    LET with == SelectSeq(mems, HasCoherence)
    IN  [j \in 1..Len(with) |->
            [timestamp |-> Get(with[j], "timestamp", 0),
             coherence |-> with[j].coherence,
             depth |-> Get(with[j], "depth", 0),
             file |-> with[j].file]]

\* mutant of InsertSorted: e is left where the scan delivered it
InsertSortedAppend(seq, e) == Append(seq, e)

\* list.sort is stable: e goes after the entries whose timestamp is <= its own
InsertSorted(seq, e) ==
    LET k == Cardinality({j \in 1..Len(seq) : seq[j].timestamp <= e.timestamp})
    IN  SubSeq(seq, 1, k) \o <<e>> \o SubSeq(seq, k + 1, Len(seq))

\* timeline.sort(key=lambda x: x['timestamp'])
RECURSIVE SortByTimestamp(_)
SortByTimestamp(tl) ==
    IF tl = <<>> THEN <<>>
    ELSE InsertSorted(SortByTimestamp(SubSeq(tl, 1, Len(tl) - 1)), tl[Len(tl)])

\* sort raises TypeError when it compares a number with a string
SortRaises(tl) ==
    \E a, b \in 1..Len(tl) : IsNumber(tl[a].timestamp) /\ ~IsNumber(tl[b].timestamp)

\* the subtractions of analyze_coherence_evolution raise TypeError on a string
ArithmeticRaises(tl) ==
    \/ /\ Len(tl) > 1
       /\ \/ ~IsNumber(tl[1].coherence)
          \/ ~IsNumber(tl[Len(tl)].coherence)
          \/ ~IsNumber(tl[1].timestamp)
          \/ ~IsNumber(tl[Len(tl)].timestamp)
    \/ /\ Len(tl) > 0
       /\ ~IsNumber(tl[Len(tl)].coherence)

\* mutant of GrowthRate: the guard max(time_span, 1) is missing
GrowthRateNoMax(coherence_growth, time_span) ==
    IF time_span > 0
    THEN [num |-> coherence_growth * TicksPerSecond, den |-> time_span]
    ELSE [num |-> 0, den |-> 1]

\* coherence_growth / max(time_span, 1) if time_span > 0 else 0, as the
\* fraction num/den per second; time_span is in ticks
GrowthRate(coherence_growth, time_span) ==
    IF time_span > 0
    THEN [num |-> coherence_growth * TicksPerSecond,
          den |-> Max(time_span, TicksPerSecond)]
    ELSE [num |-> 0, den |-> 1]

\* mutant of CurrentCoherence: an empty timeline counts as full coherence
CurrentCoherenceUnit(tl) == IF tl # <<>> THEN tl[Len(tl)].coherence ELSE Scale

\* timeline[-1]['coherence'] if timeline else 0
CurrentCoherence(tl) == IF tl # <<>> THEN tl[Len(tl)].coherence ELSE 0

\* the dict analyze_coherence_evolution returns for a sorted timeline
Evolution(tl) ==
    LET many == Len(tl) > 1
        coherence_growth == IF many THEN tl[Len(tl)].coherence - tl[1].coherence
                            ELSE 0
        time_span == IF many THEN tl[Len(tl)].timestamp - tl[1].timestamp ELSE 0
    IN  [timeline |-> tl,
         coherence_growth |-> coherence_growth,
         time_span_seconds |-> time_span,
         growth_rate_per_second |->
             IF many THEN GrowthRate(coherence_growth, time_span)
             ELSE [num |-> 0, den |-> 1],
         current_coherence |-> CurrentCoherence(tl),
         distance_to_phi7 |-> PHI7 - CurrentCoherence(tl)]

\* analyze_coherence_evolution: None, the evolution dict, or an exception
AnalyzeCoherenceEvolution(mems) ==
    IF mems = <<>> THEN [raised |-> FALSE, value |-> None]
    ELSE LET tl == Timeline(mems)
         IN  IF SortRaises(tl) \/ ArithmeticRaises(SortByTimestamp(tl))
             THEN [raised |-> TRUE, value |-> None]
             ELSE [raised |-> FALSE, value |-> Evolution(SortByTimestamp(tl))]

\* the index dict of consolidate_memories
MemoryIndex(mems, evolution, now) ==
    LET base == [total_memories |-> Len(mems),
                 creation_time |-> now,
                 phi_7_target |-> PHI7,
                 memories |-> [j \in 1..Len(mems) |->
                     [file |-> mems[j].file,
                      depth |-> Get(mems[j], "depth", "unknown"),
                      coherence |-> Get(mems[j], "coherence", 0),
                      timestamp |-> Get(mems[j], "timestamp", 0),
                      has_data |-> ("data" \in DOMAIN mems[j])]]]
    IN  IF evolution = None THEN base ELSE base @@ ("evolution" :> evolution)

-----------------------------------------------------------------------------
(* The ledger: appends by the producers, files put in the directory by     *)
(* anything else, and one consolidation pass.  Every operation is taken    *)
(* whole here; the exploration ends with the pass.                         *)

\* (depth, data) arguments of crystallize_memory
LedgerCalls == {<<0, None>>, <<1, None>>, <<1, Milestone(1)>>}

\* texts of memory_*.json files that no producer of this repository wrote
ForeignTexts ==
    << [kind |-> "garbage", pairs |-> <<>>, complete |-> FALSE],
       [kind |-> "array", pairs |-> <<>>, complete |-> TRUE],
       [kind |-> "object", complete |-> TRUE,
        pairs |-> << <<"coherence", NonNumber>> >>],
       [kind |-> "object", complete |-> TRUE,
        pairs |-> << <<"timestamp", NonNumber>>, <<"coherence", 3 * (Scale \div 10)>> >>],
       [kind |-> "object", complete |-> TRUE,
        pairs |-> << <<"note", 1>> >>],
       [kind |-> "object", complete |-> TRUE,
        pairs |-> << <<"timestamp", 0>>, <<"coherence", Scale \div 10>> >>],
       [kind |-> "object", complete |-> TRUE,
        pairs |-> << <<"timestamp", 100 * TicksPerSecond>>,
                     <<"coherence", 3 * (Scale \div 10)>> >>] >>

ForeignName(k) == Hash([foreign |-> k])

Fits(name) == Cardinality(DOMAIN files \cup {name}) <= MaxFiles

\* crystallize_memory(depth, data)
CrystallizeMemory(depth, data) ==
    /\ outcome = "none"
    /\ LET memory == Memory(depth, data, clock)
           memory_id == Hash(memory)
       IN  /\ Fits(memory_id)
           /\ files' = WriteFile(files, memory_id, Dump(memory, MemoryKeys))
           /\ stored' = WriteFile(stored, memory_id, memory)
           /\ appended' = appended \cup {<<depth, memory.data>>}
    /\ UNCHANGED <<clock, convergence_manifest, writers, scan, memories, index,
                   outcome>>
    /\ UNCHANGED engineVars

\* deploy_gamma_8(): the file is named by the digest of the milestone alone
DeployGamma8 ==
    /\ outcome = "none"
    /\ LET memory_id == Hash(Gamma8Milestone)
           memory == Gamma8Memory(clock)
       IN  /\ Fits(memory_id)
           /\ files' = WriteFile(files, memory_id, Dump(memory, ConvergenceKeys))
           /\ stored' = WriteFile(stored, memory_id, memory)
           /\ appended' = appended \cup {<<Gamma8Depth, Gamma8Milestone>>}
    /\ convergence_manifest' = Gamma8Manifest(clock)
    /\ UNCHANGED <<clock, writers, scan, memories, index, outcome>>
    /\ UNCHANGED engineVars

\* a file appears in .gamma/memories that no producer wrote
ForeignFile(k) ==
    /\ outcome = "none"
    /\ ForeignName(k) \notin DOMAIN files
    /\ Fits(ForeignName(k))
    /\ files' = WriteFile(files, ForeignName(k), ForeignTexts[k])
    /\ UNCHANGED <<clock, appended, stored>>
    /\ UNCHANGED ledgerVars
    /\ UNCHANGED engineVars

\* consolidate_memories()
ConsolidateMemories ==
    /\ outcome = "none"
    /\ \E order \in Orders(DOMAIN files) :
          LET mems == ReadAllMemories(files, order)
              evolution == AnalyzeCoherenceEvolution(mems)
          IN  /\ memories' = mems
              /\ IF evolution.raised
                 THEN /\ outcome' = "raised"
                      /\ index' = index
                 ELSE /\ outcome' = "ok"
                      /\ index' = MemoryIndex(mems, evolution.value, clock)
    /\ UNCHANGED <<files, clock, appended, stored, convergence_manifest, writers,
                   scan>>
    /\ UNCHANGED engineVars

\* the clock of the ledger's producers
LedgerTick ==
    /\ outcome = "none"
    /\ Tick

InitLedger ==
    /\ max_depth = 0
    /\ pc = "idle"
    /\ n = 0
    /\ milestones = <<>>
    /\ stage_i = 1
    /\ written = <<>>
    /\ manifest = None
    /\ files = EmptyDict
    /\ clock = 0
    /\ appended = {}
    /\ stored = EmptyDict
    /\ convergence_manifest = None
    /\ writers = EmptyDict
    /\ scan = NoScan
    /\ memories = <<>>
    /\ index = None
    /\ outcome = "none"

NextLedger ==
    \/ \E call \in LedgerCalls : CrystallizeMemory(call[1], call[2])
    \/ DeployGamma8
    \/ \E k \in 1..Len(ForeignTexts) : ForeignFile(k)
    \/ ConsolidateMemories
    \/ LedgerTick

SpecLedger == InitLedger /\ [][NextLedger]_vars

-----------------------------------------------------------------------------
(* Claims about the ledger and the consolidation pass.                     *)

\* C3 (as claimed): the number of snapshot files the producers have stored
\* equals the number of distinct logical snapshots (depth, payload) appended.
C3_OneRecordPerSnapshot == Cardinality(DOMAIN stored) = Cardinality(appended)

\* C4 (as claimed): a stored snapshot file is never rewritten: every file a
\* producer has written keeps its text in every later step.
C4_Immutable ==
    [][\A f \in DOMAIN stored : f \in DOMAIN files' /\ files'[f] = files[f]]_vars

\* the scan has run
Scanned == outcome # "none"

HasTimeline ==
    /\ outcome = "ok"
    /\ "evolution" \in DOMAIN index
    /\ Len(index.evolution.timeline) >= 2

\* the fraction r equals num/den
RatEq(r, num, den) == r.num * den = num * r.den

\* first and last are the earliest and the latest point by timestamp
EndsByTimestamp(tl) ==
    \A j \in 1..Len(tl) :
        /\ tl[1].timestamp <= tl[j].timestamp
        /\ tl[j].timestamp <= tl[Len(tl)].timestamp

\* C7 (as claimed): with at least 2 timeline points, growth_rate =
\* (last.coherence - first.coherence) / max(last.timestamp - first.timestamp, 1)
\* for every span, first and last being the earliest and latest points.
C7_GrowthRateAnySpan ==
    HasTimeline =>
        LET tl == index.evolution.timeline
            first == tl[1]
            last == tl[Len(tl)]
        IN  /\ EndsByTimestamp(tl)
            /\ RatEq(index.evolution.growth_rate_per_second,
                     (last.coherence - first.coherence) * TicksPerSecond,
                     Max(last.timestamp - first.timestamp, TicksPerSecond))

\* C7 (amended): with at least 2 timeline points, growth_rate =
\* (last.coherence - first.coherence) / max(last.timestamp - first.timestamp, 1)
\* when the span is greater than 0, and growth_rate = 0 when the span is 0.
C7_GrowthRatePositiveSpan ==
    HasTimeline =>
        LET tl == index.evolution.timeline
            first == tl[1]
            last == tl[Len(tl)]
        IN  /\ EndsByTimestamp(tl)
            /\ IF last.timestamp - first.timestamp > 0
               THEN RatEq(index.evolution.growth_rate_per_second,
                          (last.coherence - first.coherence) * TicksPerSecond,
                          Max(last.timestamp - first.timestamp, TicksPerSecond))
               ELSE index.evolution.growth_rate_per_second.num = 0

C7_Witness ==
    /\ HasTimeline
    /\ LET tl == index.evolution.timeline
           span == tl[Len(tl)].timestamp - tl[1].timestamp
       IN  /\ span > 0
           /\ span < TicksPerSecond
           /\ index.evolution.growth_rate_per_second.num # 0

\* an index was written and the scan gave fewer than 2 timeline points
FewPoints == outcome = "ok" /\ Len(SelectSeq(memories, HasCoherence)) < 2

\* the coherence of the only timeline point, 0 when there is none
OnlyCoherence ==
    LET points == SelectSeq(memories, HasCoherence)
    IN  IF points = <<>> THEN 0 ELSE points[1].coherence

\* C8 (as claimed): with fewer than 2 timeline points, the empty ledger
\* included, the index reports total_count = number of snapshots read,
\* growth_rate = 0 and distance_to_target = target - last coherence (or 0).
C8_FewPointsAlways ==
    FewPoints =>
        /\ index.total_memories = Len(memories)
        /\ "evolution" \in DOMAIN index
        /\ index.evolution.growth_rate_per_second.num = 0
        /\ index.evolution.distance_to_phi7 = PHI7 - OnlyCoherence

\* C8 (amended): with fewer than 2 timeline points the index reports
\* total_count = number of snapshots read; when at least one snapshot was read
\* it reports growth_rate = 0 and distance_to_target = target - last coherence
\* (target - 0 without a point); when none was read (the empty ledger) it
\* reports total_count = 0 and carries no growth_rate or distance_to_target.
C8_FewPointsNonEmpty ==
    FewPoints =>
        /\ index.total_memories = Len(memories)
        /\ IF memories = <<>>
           THEN "evolution" \notin DOMAIN index
           ELSE /\ "evolution" \in DOMAIN index
                /\ index.evolution.growth_rate_per_second.num = 0
                /\ index.evolution.distance_to_phi7 = PHI7 - OnlyCoherence

C8_Witness ==
    /\ FewPoints
    /\ Len(memories) = 2
    /\ Len(SelectSeq(memories, HasCoherence)) = 1
    /\ index.evolution.current_coherence > 0

\* C9 (as claimed): consolidation never fails on a bad record: it completes,
\* and the timeline it writes holds well-typed points only.
C9_NeverFails ==
    /\ outcome # "raised"
    /\ outcome = "ok" /\ "evolution" \in DOMAIN index =>
          \A j \in 1..Len(index.evolution.timeline) :
              /\ IsNumber(index.evolution.timeline[j].coherence)
              /\ IsNumber(index.evolution.timeline[j].timestamp)

-----------------------------------------------------------------------------
(* One producer process and the introspection pass, as separate processes  *)
(* sharing the directory.  A write is open(path, 'w') (the file is created *)
(* or truncated), flushes of the buffered text, and close; a scan is the   *)
(* glob followed by one open/json.load per file.                           *)

\* the text of a file just opened with mode 'w'
Truncated == [kind |-> "object", pairs |-> <<>>, complete |-> FALSE]

\* the first j pairs of text, the closing brace not yet written
Prefix(text, j) ==
    [kind |-> text.kind, pairs |-> SubSeq(text.pairs, 1, j), complete |-> FALSE]

\* open(filepath, 'w') for the dict memory, to be dumped with keys
OpenForWrite(name, memory, keys) ==
    /\ outcome = "none"
    /\ DOMAIN writers = {}
    /\ Fits(name)
    /\ files' = WriteFile(files, name, Truncated)
    /\ writers' = WriteFile(writers, name, [memory |-> memory, keys |-> keys])

\* crystallize_memory(0) up to and including open(filepath, 'w')
CrystallizeOpen ==
    /\ LET memory == Memory(0, None, clock)
       IN  /\ OpenForWrite(Hash(memory), memory, MemoryKeys)
           /\ appended' = appended \cup {<<0, memory.data>>}
    /\ UNCHANGED <<clock, stored, convergence_manifest, scan, memories, index,
                   outcome>>
    /\ UNCHANGED engineVars

\* deploy_gamma_8() up to and including open(memory_file, 'w')
Gamma8Open ==
    /\ OpenForWrite(Hash(Gamma8Milestone), Gamma8Memory(clock), ConvergenceKeys)
    /\ appended' = appended \cup {<<Gamma8Depth, Gamma8Milestone>>}
    /\ UNCHANGED <<clock, stored, convergence_manifest, scan, memories, index,
                   outcome>>
    /\ UNCHANGED engineVars

\* the buffer of json.dump is flushed: more of the text reaches the file
Flush(name) ==
    /\ name \in DOMAIN writers
    /\ LET text == Dump(writers[name].memory, writers[name].keys)
       IN  \E j \in (Len(files[name].pairs) + 1)..Len(text.pairs) :
              files' = WriteFile(files, name, Prefix(text, j))
    /\ UNCHANGED <<clock, appended, stored>>
    /\ UNCHANGED ledgerVars
    /\ UNCHANGED engineVars

\* the with block ends: the whole text is in the file.  deploy_gamma_8 then
\* writes its manifest
Close(name) ==
    /\ name \in DOMAIN writers
    /\ files' = WriteFile(files, name,
                          Dump(writers[name].memory, writers[name].keys))
    /\ stored' = WriteFile(stored, name, writers[name].memory)
    /\ writers' = [w \in DOMAIN writers \ {name} |-> writers[w]]
    /\ convergence_manifest' =
          IF writers[name].keys = ConvergenceKeys
          THEN Gamma8Manifest(clock) ELSE convergence_manifest
    /\ UNCHANGED <<clock, appended, scan, memories, index, outcome>>
    /\ UNCHANGED engineVars

\* read_all_memories: sorted(self.memories_dir.glob('memory_*.json'))
\* (settled records what was fully written when the scan began)
ScanBegin ==
    /\ scan = NoScan
    /\ \E order \in Orders(DOMAIN files) :
          scan' = [phase |-> "reading",
                   todo |-> order,
                   read |-> <<>>,
                   settled |-> [f \in DOMAIN stored \ DOMAIN writers |-> stored[f]]]
    /\ UNCHANGED <<files, clock, appended, stored, convergence_manifest, writers,
                   memories, index, outcome>>
    /\ UNCHANGED engineVars

\* read_all_memories: one turn of the loop over the files
ScanRead ==
    /\ scan.phase = "reading"
    /\ scan.todo # <<>>
    /\ scan' = [scan EXCEPT
                   !.todo = Tail(scan.todo),
                   !.read = scan.read \o ReadMemory(Head(scan.todo),
                                                    files[Head(scan.todo)])]
    /\ UNCHANGED <<files, clock, appended, stored, convergence_manifest, writers,
                   memories, index, outcome>>
    /\ UNCHANGED engineVars

\* read_all_memories returns; consolidate_memories builds and writes the index
ScanEnd ==
    /\ scan.phase = "reading"
    /\ scan.todo = <<>>
    /\ scan' = [scan EXCEPT !.phase = "done"]
    /\ memories' = scan.read
    /\ LET evolution == AnalyzeCoherenceEvolution(scan.read)
       IN  IF evolution.raised
           THEN /\ outcome' = "raised"
                /\ index' = index
           ELSE /\ outcome' = "ok"
                /\ index' = MemoryIndex(scan.read, evolution.value, clock)
    /\ UNCHANGED <<files, clock, appended, stored, convergence_manifest, writers>>
    /\ UNCHANGED engineVars

NextConcurrent ==
    \/ CrystallizeOpen
    \/ Gamma8Open
    \/ \E name \in DOMAIN writers : Flush(name)
    \/ \E name \in DOMAIN writers : Close(name)
    \/ ScanBegin
    \/ ScanRead
    \/ ScanEnd
    \/ LedgerTick

SpecConcurrent == InitLedger /\ [][NextConcurrent]_vars

\* C10 (as claimed): a snapshot that was fully written when a scan began is
\* returned by that scan complete and unmodified, whatever appends are
\* interleaved with the scan.
C10_SettledSnapshotsRead ==
    scan.phase = "done" =>
        \A f \in DOMAIN scan.settled :
            \E j \in 1..Len(memories) : memories[j] = WithFile(scan.settled[f], f)

=============================================================================
